---- MODULE Spec2Model ----
(***************************************************************************)
(* Real-time audio pipeline of the storybook client.                        *)
(*                                                                          *)
(*   AudioPlaybackQueue  frontend/src/hooks/useAudio.ts  (lines 259-370)    *)
(*   useAudio            frontend/src/hooks/useAudio.ts  (lines 168-253)    *)
(*   useWebSocket        hooks/useWebSocket.ts           (unnamed/part_001) *)
(*   App handlers        App.tsx                         (unnamed/part_002) *)
(*   message dispatch    App.tsx handleChunk             (unnamed/part_002) *)
(*                                                                          *)
(* Time is counted in ticks of 50 ms, so the 0.05 s slack of the            *)
(* playback-completion handler is one tick.  Every operation of the code    *)
(* is an operator from a state record to a state record; a handler that     *)
(* calls several operations is their composition, and an action commits     *)
(* the record its handler returns.                                          *)
(***************************************************************************)
EXTENDS Integers, Sequences, FiniteSets, TLC

\* ---------------------------------------------------------------- bounds
MaxChunks == 3      \* chunks scheduled on one timeline
MaxTime   == 3      \* last clock reading of a rendering context
MaxSeq    == 2      \* largest sequence number on the wire
MaxStarts == 2      \* calls of startRecording() in one run
AppChunks == 1      \* audio messages dispatched onto one timeline by the application
MaxPresses == 1     \* presses of the push-to-talk button handled by the application
MaxMessages == 3    \* frames delivered to ws.onmessage in one run
SampleDen == 4      \* input samples are the multiples of 1/SampleDen in [-2, 2]
MaxFrame == 2       \* samples in one input buffer of the processor node
MaxInflight == 2     \* audio messages in flight at one time
MaxSockets == 2     \* sockets one hook instance constructs in one run

\* remaining <= 0.05 (seconds) in source.onended: one tick of 50 ms
EndSlack == 1

\* buffer.duration of a decoded chunk: one that is no longer than the slack of
\* the completion handler, and one that is longer
Durations == {EndSlack, EndSlack + 1}

VARIABLES
    pq,         \* AudioPlaybackQueue: audioCtx, nextStartTime, isActive, analyser, animFrame
    ctx,        \* the AudioContext pq.audioCtx refers to: state, currentTime
    timeline,   \* buffer sources started on that context, in the order of source.start()
    late,       \* clock reading of the closed context that still owes an "ended" event
                \* (only the most recently closed one is followed), or empty
    volume,     \* last value passed to onPlaybackVolume
    rec,        \* useAudio refs: streamRef, audioCtxRef, processorRef, animFrameRef, isRecording
    sessions,   \* one entry per startRecording() call: its progress and what it acquired
    capVolume,  \* last value passed to onVolumeChange
    quiet,      \* stopRecording() has returned and startRecording() was not called since
    cbSinceStop,\* the last capture callback the platform fired since the last stopRecording()
    wsRef,      \* useWebSocket: the socket held in wsRef (0 = null)
    sockets,    \* the WebSocket objects constructed so far, by their connection state
    status,     \* useWebSocket: the status state
    dropped,    \* whether the most recent clear() cut off active playback before its end
    storyItems, \* App: the story units, each with the messages its content came from
    itemCounter,\* App: the counter behind uid()
    inbox,      \* the frames the socket has delivered to ws.onmessage, in order
    failed,     \* the newest socket that has reported an error or a close (0 = none)
    openedBy,   \* the socket whose open event was delivered last (0 = none)
    inflight,   \* audio frames the peer has emitted and the socket has not delivered yet:
                \* for each, whether an interrupt handler has run since it was emitted
    pressed,    \* AudioControl: the pressed state of the push-to-talk button
    inputData,  \* onaudioprocess: the samples of the input buffer, in units of 1/SampleDen
    pcm16,      \* onaudioprocess: the Int16Array written from them
    log,        \* operations run by the most recent step, in program order
    lastOp,     \* the most recent step: the call the application made, or "event"
    prevOp      \* the step before it, when that was a cancellation (clear, stopRecording)

playbackVars == <<pq, ctx, timeline, late, volume, dropped>>
captureVars == <<rec, sessions, capVolume, quiet, cbSinceStop>>
socketVars == <<wsRef, sockets, status>>
storyVars == <<storyItems, itemCounter, inbox>>
pcmVars == <<inputData, pcm16>>
vars == <<pq, ctx, timeline, late, volume, dropped, rec, sessions, capVolume, quiet,
          cbSinceStop, wsRef, sockets, status, storyItems, itemCounter, inbox, failed,
          openedBy, inflight, pressed, inputData, pcm16, log, lastOp, prevOp>>

Max(a, b) == IF a >= b THEN a ELSE b

NoCtx == [state |-> "none", currentTime |-> 0]

\* the state the operations thread through
St == [pq |-> pq, ctx |-> ctx, timeline |-> timeline, late |-> late,
       volume |-> volume, dropped |-> dropped, rec |-> rec, sessions |-> sessions,
       capVolume |-> capVolume, quiet |-> quiet, cbSinceStop |-> cbSinceStop,
       wsRef |-> wsRef, sockets |-> sockets, status |-> status,
       storyItems |-> storyItems, itemCounter |-> itemCounter, inbox |-> inbox,
       failed |-> failed, openedBy |-> openedBy,
       inflight |-> inflight, pressed |-> pressed,
       log |-> <<>>]

Commit(t) ==
    /\ pq' = t.pq
    /\ ctx' = t.ctx
    /\ timeline' = t.timeline
    /\ late' = t.late
    /\ volume' = t.volume
    /\ dropped' = t.dropped
    /\ rec' = t.rec
    /\ sessions' = t.sessions
    /\ capVolume' = t.capVolume
    /\ quiet' = t.quiet
    /\ cbSinceStop' = t.cbSinceStop
    /\ wsRef' = t.wsRef
    /\ sockets' = t.sockets
    /\ status' = t.status
    /\ storyItems' = t.storyItems
    /\ itemCounter' = t.itemCounter
    /\ inbox' = t.inbox
    /\ failed' = t.failed
    /\ openedBy' = t.openedBy
    /\ inflight' = t.inflight
    /\ pressed' = t.pressed
    /\ UNCHANGED pcmVars
    /\ log' = t.log

Cancellations == {"clear", "stopRecording"}

\* a call made by the application (a handler, or one operation of an object)
Step(name, t) ==
    /\ Commit(t)
    /\ prevOp' = IF lastOp \in Cancellations THEN lastOp ELSE "other"
    /\ lastOp' = name

\* an event of the platform: a clock tick, a settled promise, a delivered callback
Event(t) ==
    /\ Commit(t)
    /\ prevOp' = "other"
    /\ lastOp' = "event"

Called(s, op) == [s EXCEPT !.log = Append(@, op)]

\* -------------------------------------------------- AudioPlaybackQueue

\* this.onPlaybackVolume?.(v)
ReportVolume(s, v) == [s EXCEPT !.volume = v]

\* trackVolume(): the polling loop starts only with an analyser and while active.
\* Its only caller is setupAnalyser(); getCtx() runs that before enqueue() sets
\* isActive, and enqueue() runs it again only without an analyser, which getCtx()
\* has always set.  No reachable state has a pending frame of this loop, so the
\* model has no action that delivers one.
trackVolume(s) ==
    IF s.pq.analyser = 0 \/ ~s.pq.isActive
    THEN s
    ELSE [ReportVolume(s, "level") EXCEPT !.pq.animFrame = TRUE]

\* setupAnalyser()
setupAnalyser(s) ==
    IF s.pq.audioCtx = 0
    THEN s
    ELSE trackVolume([s EXCEPT !.pq.analyser = s.pq.audioCtx])

\* getCtx() that constructs a context on every call
getCtxFresh(s, st) ==
    setupAnalyser([s EXCEPT !.pq.audioCtx = 1,
                            !.ctx = [state |-> st, currentTime |-> 0],
                            !.pq.nextStartTime = 0])

\* getCtx(): a context is constructed when none is held; st is the state the
\* platform gives the new context (autoplay policy)
getCtx(s, st) ==
    IF s.pq.audioCtx = 0
    THEN setupAnalyser([s EXCEPT !.pq.audioCtx = 1,
                                 !.ctx = [state |-> st, currentTime |-> 0],
                                 !.pq.nextStartTime = 0])
    ELSE s

\* unlock(): ctx.resume() is requested on a suspended context; the context
\* runs once the platform grants it (CtxResumed)
unlock(s, st) == Called(getCtx(s, st), "unlock")

\* const startAt = Math.max(now, this.nextStartTime)
StartAtNow(now, nextStartTime) == now
StartAtNext(now, nextStartTime) == nextStartTime
StartAt(now, nextStartTime) == Max(now, nextStartTime)

\* a completion handler that lets go of the context when the scheduler goes idle
onendedReleases(s, currentTime) ==
    IF s.pq.nextStartTime - currentTime <= EndSlack
    THEN ReportVolume([s EXCEPT !.pq.isActive = FALSE, !.pq.audioCtx = 0,
                                !.pq.analyser = 0, !.ctx = NoCtx,
                                !.timeline = <<>>], "zero")
    ELSE s

\* a completion handler that never marks the scheduler idle
onendedKeepsActive(s, currentTime) == s

\* the body of source.onended, run with the clock of the context it captured
onended(s, currentTime) ==
    IF s.pq.nextStartTime - currentTime <= EndSlack
    THEN ReportVolume([s EXCEPT !.pq.isActive = FALSE], "zero")
    ELSE s

\* enqueue(base64, sequence) that starts two sources for the chunk
enqueueTwice(s, sequence, duration, st) ==
    LET c == getCtx(s, st)
        now == c.ctx.currentTime
        startAt == StartAt(now, c.pq.nextStartTime)
        src == [sequence |-> sequence, startAt |-> startAt, duration |-> duration,
                ended |-> FALSE]
        d == [c EXCEPT !.timeline = Append(Append(@, src),
                                           [src EXCEPT !.startAt = startAt + duration]),
                       !.pq.nextStartTime = startAt + 2 * duration,
                       !.pq.isActive = TRUE]
    IN Called(d, "enqueue")

\* enqueue(base64, sequence): duration is the length of the decoded buffer
enqueue(s, sequence, duration, st) ==
    LET c == getCtx(s, st)
        now == c.ctx.currentTime
        startAt == StartAt(now, c.pq.nextStartTime)
        src == [sequence |-> sequence, startAt |-> startAt, duration |-> duration,
                ended |-> FALSE]
        d == [c EXCEPT !.timeline = Append(@, src),
                       !.pq.nextStartTime = startAt + duration,
                       !.pq.isActive = TRUE]
    IN Called(IF d.pq.analyser = 0 THEN setupAnalyser(d) ELSE d, "enqueue")

\* samples of 24 kHz audio in one tick of 50 ms, and bytes of one Int16 sample
TickSamples == 1200
BytesPerSample == 2

\* binary = atob(base64): a payload is named by what atob makes of it, whether it
\* is accepted as base64 and the number of bytes it yields; any other string
\* (story text, say) is not base64 of PCM
atob(base64) ==
    CASE base64 = "PCM50"  -> [ok |-> TRUE, length |-> TickSamples * BytesPerSample]
      [] base64 = "PCM100" -> [ok |-> TRUE, length |-> 2 * TickSamples * BytesPerSample]
      [] base64 = "PCMODD" -> [ok |-> TRUE, length |-> TickSamples * BytesPerSample + 1]
      [] base64 = ""       -> [ok |-> TRUE, length |-> 0]
      [] OTHER             -> [ok |-> FALSE, length |-> 0]

\* the decoding steps of enqueue() run through: atob throws on a string that is
\* not base64, new Int16Array(bytes.buffer) on an odd number of bytes, and
\* ctx.createBuffer(1, length, 24000) on a length of zero
Decodes(base64) ==
    /\ atob(base64).ok
    /\ atob(base64).length % BytesPerSample = 0
    /\ atob(base64).length \div BytesPerSample > 0

\* buffer.duration, in ticks
Duration(base64) == (atob(base64).length \div BytesPerSample) \div TickSamples

\* enqueue(base64, sequence) that marks the scheduler active before it decodes
enqueueMarksFirst(s, base64, sequence, st) ==
    IF Decodes(base64)
    THEN enqueue(s, sequence, Duration(base64), st)
    ELSE Called(Called([getCtx(s, st) EXCEPT !.pq.isActive = TRUE], "enqueue"), "throw")

\* enqueue(base64, sequence) from the payload on the wire: a payload that does not
\* decode throws after getCtx() and before anything is scheduled
enqueueBase64(s, base64, sequence, st) ==
    IF Decodes(base64)
    THEN enqueue(s, sequence, Duration(base64), st)
    ELSE Called(Called(getCtx(s, st), "enqueue"), "throw")

\* a source has played to its end on the clock reading t
Finished(src, t) == src.startAt + src.duration <= t

\* sources of the context whose "ended" event is due and not yet delivered
Owed(s) == {i \in 1..Len(s.timeline) :
              ~s.timeline[i].ended /\ Finished(s.timeline[i], s.ctx.currentTime)}

\* close() of a context: its sources are discarded; when an "ended" event was
\* already due, the platform may still deliver it (keep) or not
close(s, keep) ==
    [s EXCEPT !.late = IF keep /\ Owed(s) # {} THEN {s.ctx.currentTime} ELSE @,
              !.dropped = /\ s.pq.isActive
                          /\ \E i \in 1..Len(s.timeline) :
                                ~Finished(s.timeline[i], s.ctx.currentTime),
              !.timeline = <<>>,
              !.ctx = NoCtx]

\* clear() that leaves the scheduler marked active
ClearKeepsActive(s, keep) ==
    LET c == IF s.pq.audioCtx # 0 THEN close(s, keep) ELSE [s EXCEPT !.dropped = FALSE]
    IN Called([ReportVolume(c, "zero") EXCEPT
                        !.pq.animFrame = FALSE,
                        !.pq.audioCtx = 0,
                        !.pq.analyser = 0,
                        !.pq.nextStartTime = 0], "clear")

\* clear() that only stops the volume tap and keeps the context and its timeline
ClearKeepsTimeline(s, keep) ==
    Called(ReportVolume([s EXCEPT !.pq.animFrame = FALSE, !.pq.isActive = FALSE,
                                  !.dropped = FALSE], "zero"),
           "clear")

\* clear()
clear(s, keep) ==
    LET c == IF s.pq.audioCtx # 0 THEN close(s, keep) ELSE [s EXCEPT !.dropped = FALSE]
    IN Called([ReportVolume(c, "zero") EXCEPT
                        !.pq.animFrame = FALSE,
                        !.pq.isActive = FALSE,
                        !.pq.audioCtx = 0,
                        !.pq.analyser = 0,
                        !.pq.nextStartTime = 0], "clear")

\* ------------------------------------------------------------ useAudio

\* onVolumeChange(v) and onAudioData(base64), as the platform's callbacks see them
onVolumeChange(s, v) == [s EXCEPT !.capVolume = v]

\* the rest of startRecording() once the capture context runs: the volume loop
\* (its first tick runs at once), the processor node, setIsRecording(true)
setupCapture(s, k) ==
    [onVolumeChange(s, "level") EXCEPT
        !.cbSinceStop = "volume",
        !.sessions[k].raf = TRUE,
        !.rec.animFrameRef = k,
        !.sessions[k].proc = "connected",
        !.rec.processorRef = k,
        !.rec.isRecording = TRUE,
        !.sessions[k].pc = "done"]

\* startRecording() up to its first suspension: await getUserMedia(...)
startRecording(s) ==
    Called([s EXCEPT !.sessions = Append(@, [pc |-> "getUserMedia", stream |-> "none",
                                             actx |-> "none", proc |-> "none",
                                             raf |-> FALSE]),
                     !.quiet = FALSE], "startRecording")

\* getUserMedia resolved: the stream and the capture context are stored; a
\* suspended context suspends the call again at await audioCtx.resume()
granted(s, k, st) ==
    LET g == [s EXCEPT !.sessions[k].stream = "live",
                       !.rec.streamRef = k,
                       !.sessions[k].actx = st,
                       !.rec.audioCtxRef = k]
    IN IF st = "suspended"
       THEN [g EXCEPT !.sessions[k].pc = "resume"]
       ELSE setupCapture(g, k)

\* a rejection of getUserMedia after which the hook reports that it records
deniedMarksRecording(s, k) ==
    [s EXCEPT !.sessions[k].pc = "failed", !.rec.isRecording = TRUE]

\* getUserMedia rejected: the catch block only logs
denied(s, k) == [s EXCEPT !.sessions[k].pc = "failed"]

\* audioCtx.resume() settled: it rejects on a context that was closed meanwhile
resumed(s, k) ==
    IF s.sessions[k].actx = "closed"
    THEN [s EXCEPT !.sessions[k].pc = "failed"]
    ELSE setupCapture([s EXCEPT !.sessions[k].actx = "running"], k)

\* one run of trackVolume on an animation frame
captureTick(s, k) ==
    [onVolumeChange(s, "level") EXCEPT !.cbSinceStop = "volume", !.rec.animFrameRef = k]

\* processor.onaudioprocess: one PCM chunk is handed to onAudioData
onaudioprocess(s, k) == [s EXCEPT !.cbSinceStop = "audio"]

\* ---- the PCM16 conversion of onaudioprocess
\* A sample is the rational x / SampleDen; x is what the model stores.

NegScale == 32768       \* 0x8000
PosScale == 32767       \* 0x7fff
Int16Modulus == 65536   \* an Int16Array element holds its value modulo 2^16

Min(a, b) == IF a <= b THEN a ELSE b

Samples == (-2 * SampleDen)..(2 * SampleDen)

\* Math.max(-1, Math.min(1, inputData[i]))
Clamp(x) == Max(-SampleDen, Min(SampleDen, x))

\* a scaling that uses 0x8000 on both sides of zero
ScaleBoth(x) == NegScale

\* s < 0 ? s * 0x8000 : s * 0x7fff, the factor
Scale(x) == IF x < 0 THEN NegScale ELSE PosScale

\* the store into an Int16Array element: the number num / den is truncated
\* toward zero and taken modulo 2^16 into [-2^15, 2^15 - 1]
Trunc(num, den) == IF num >= 0 THEN num \div den ELSE -((-num) \div den)
ToInt16(v) == ((v + Int16Modulus \div 2) % Int16Modulus) - Int16Modulus \div 2

\* pcm16[i] for inputData[i] = x / SampleDen
ToPcm16(x) == ToInt16(Trunc(Clamp(x) * Scale(Clamp(x)), SampleDen))

\* cancelAnimationFrame(handle): the handle names the frame a session requested last
cancelFrame(ss, k) == IF k = 0 THEN ss ELSE [ss EXCEPT ![k].raf = FALSE]
disconnectNode(ss, k) == IF k = 0 THEN ss ELSE [ss EXCEPT ![k].proc = "disconnected"]
closeCtx(ss, k) == IF k = 0 THEN ss ELSE [ss EXCEPT ![k].actx = "closed"]
stopTracks(ss, k) == IF k = 0 THEN ss ELSE [ss EXCEPT ![k].stream = "stopped"]

\* stopRecording() that toggles the recording flag
stopRecordingToggle(s) ==
    Called([onVolumeChange(s, "zero") EXCEPT
        !.sessions = stopTracks(closeCtx(disconnectNode(cancelFrame(@,
                        s.rec.animFrameRef), s.rec.processorRef), s.rec.audioCtxRef),
                        s.rec.streamRef),
        !.rec.processorRef = 0,
        !.rec.audioCtxRef = 0,
        !.rec.streamRef = 0,
        !.rec.isRecording = ~s.rec.isRecording,
        !.quiet = TRUE,
        !.cbSinceStop = "none"], "stopRecording")

\* stopRecording()
stopRecording(s) ==
    Called([onVolumeChange(s, "zero") EXCEPT
        !.sessions = stopTracks(closeCtx(disconnectNode(cancelFrame(@,
                        s.rec.animFrameRef), s.rec.processorRef), s.rec.audioCtxRef),
                        s.rec.streamRef),
        !.rec.processorRef = 0,
        !.rec.audioCtxRef = 0,
        !.rec.streamRef = 0,
        !.rec.isRecording = FALSE,
        !.quiet = TRUE,
        !.cbSinceStop = "none"], "stopRecording")

\* -------------------------------------------------------- useWebSocket
\* A socket is "connecting", "open", "closing" (its connection is gone or close()
\* was called, the close event is still owed) or "closed" (close event delivered).

\* wsRef.current?.readyState === WebSocket.OPEN
IsOpen(s) == s.wsRef # 0 /\ s.sockets[s.wsRef] = "open"

\* connect()
connect(s) ==
    IF IsOpen(s)
    THEN Called(s, "connect")
    ELSE Called([s EXCEPT !.status = "connecting",
                          !.sockets = Append(@, "connecting"),
                          !.wsRef = Len(s.sockets) + 1], "connect")

\* ws.close(): a socket that is connecting or open starts its closing handshake
closeSocket(ss, k) ==
    IF k # 0 /\ ss[k] \in {"connecting", "open"} THEN [ss EXCEPT ![k] = "closing"] ELSE ss

\* disconnect() that also sets the status
disconnectSetsStatus(s) ==
    Called([s EXCEPT !.sockets = closeSocket(@, s.wsRef), !.wsRef = 0,
                     !.status = "disconnected"], "disconnect")

\* disconnect()
disconnect(s) ==
    Called([s EXCEPT !.sockets = closeSocket(@, s.wsRef), !.wsRef = 0], "disconnect")

\* a frame is handed to whatever socket the hook holds
sendAlways(s, type) == Called(s, type)

\* a frame is handed to the socket only while it is open
send(s, type) == IF IsOpen(s) THEN Called(s, type) ELSE s

\* sendInterrupt()
sendInterrupt(s) == send(Called(s, "sendInterrupt"), "frame:interrupt")

\* sendAudio(base64)
sendAudio(s) == send(s, "frame:audio")

\* sendText(text)
sendText(s) == send(s, "frame:text")

\* ----------------------------------------------------------------- App

\* handlePressStart with the interrupt sent before the local queue is cleared
handlePressStartSendFirst(s, st, keep) ==
    startRecording(clear(sendInterrupt(unlock(s, st)), keep))

\* handlePressStart
handlePressStart(s, st, keep) ==
    startRecording(sendInterrupt(clear(unlock(s, st), keep)))

\* handlePressEnd
handlePressEnd(s) == stopRecording(s)

\* handleInterrupt that stops local playback only when the interrupt can be sent
handleInterruptIfOpen(s, keep) ==
    IF IsOpen(s) THEN sendInterrupt(clear(s, keep)) ELSE sendInterrupt(s)

\* handleInterrupt
handleInterrupt(s, keep) == sendInterrupt(clear(s, keep))

\* handleChunk, case 'audio', for a message that carries data and a sequence
handleAudioChunk(s, sequence, duration, st) == enqueue(s, sequence, duration, st)

\* ---- incoming frames: ws.onmessage and handleChunk
\* A frame either parses as JSON or not; a parsed chunk has a type, and the
\* optional fields named in has.

Chunk(type, has, data, sequence) ==
    [parses |-> TRUE, type |-> type, has |-> has, data |-> data, sequence |-> sequence]

Unparseable == [parses |-> FALSE, type |-> "", has |-> {}, data |-> "", sequence |-> 0]

\* if (chunk.data) that only asks for the field to be present
HasDataField(chunk) == "data" \in chunk.has

\* if (chunk.data): the field is present and not the empty string
HasData(chunk) == "data" \in chunk.has /\ chunk.data # ""

\* chunk.sequence !== undefined, with a test that also rejects sequence 0
HasSequenceTruthy(chunk) == "sequence" \in chunk.has /\ chunk.sequence # 0

\* chunk.sequence !== undefined
HasSequence(chunk) == "sequence" \in chunk.has

\* uid()
uid(s) == s.itemCounter + 1

\* the updater of case 'text' that always opens a unit
appendTextNewUnit(s, data, n) ==
    [s EXCEPT !.storyItems = Append(@, [id |-> uid(s), type |-> "text",
                                        content |-> data, from |-> {n}]),
              !.itemCounter = uid(s)]

\* the updater of case 'text'; n is the position of the message in the inbox
appendText(s, data, n) ==
    LET prev == s.storyItems
        last == prev[Len(prev)]
    IN IF Len(prev) > 0 /\ last.type = "text"
       THEN [s EXCEPT !.storyItems[Len(prev)] =
                          [last EXCEPT !.content = @ \o data, !.from = @ \cup {n}]]
       ELSE [s EXCEPT !.storyItems = Append(@, [id |-> uid(s), type |-> "text",
                                                content |-> data, from |-> {n}]),
                      !.itemCounter = uid(s)]

\* an updater of case 'image' that puts the image in the place of the last unit
appendImageInPlace(s, data, n) ==
    LET prev == s.storyItems
        unit == [id |-> uid(s), type |-> "image", content |-> data, from |-> {n}]
    IN [s EXCEPT !.storyItems = IF Len(prev) > 0
                                THEN [prev EXCEPT ![Len(prev)] = unit]
                                ELSE Append(prev, unit),
                 !.itemCounter = uid(s)]

\* the updater of case 'image'
appendImage(s, data, n) ==
    [s EXCEPT !.storyItems = Append(@, [id |-> uid(s), type |-> "image",
                                        content |-> data, from |-> {n}]),
              !.itemCounter = uid(s)]

\* handleChunk whose case 'error' also stops the playback
handleChunkErrorClears(s, chunk, st) ==
    LET h == Called(s, "handleChunk")
        n == Len(s.inbox)
    IN CASE chunk.type = "text" ->
              IF HasData(chunk) THEN appendText(h, chunk.data, n) ELSE h
         [] chunk.type = "image" ->
              IF HasData(chunk) THEN appendImage(h, chunk.data, n) ELSE h
         [] chunk.type = "audio" ->
              IF HasData(chunk) /\ HasSequence(chunk)
              THEN enqueueBase64(h, chunk.data, chunk.sequence, st)
              ELSE h
         [] chunk.type = "error" -> clear(Called(h, "console.error"), FALSE)
         [] OTHER -> h

\* handleChunk(chunk): the switch has no case for 'status' and no default
handleChunk(s, chunk, st) ==
    LET h == Called(s, "handleChunk")
        n == Len(s.inbox)
    IN CASE chunk.type = "text" ->
              IF HasData(chunk) THEN appendText(h, chunk.data, n) ELSE h
         [] chunk.type = "image" ->
              IF HasData(chunk) THEN appendImage(h, chunk.data, n) ELSE h
         [] chunk.type = "audio" ->
              IF HasData(chunk) /\ HasSequence(chunk)
              THEN enqueueBase64(h, chunk.data, chunk.sequence, st)
              ELSE h
         [] chunk.type = "error" -> Called(h, "console.error")
         [] OTHER -> h

Threw(s) == \E i \in 1..Len(s.log) : s.log[i] = "throw"

\* ws.onmessage that closes the socket on a frame it cannot parse
onmessageStrict(s, frame, st) ==
    LET r == [s EXCEPT !.inbox = Append(@, frame)]
    IN IF ~frame.parses
       THEN Called([r EXCEPT !.sockets[s.wsRef] = "closing"], "console.error")
       ELSE LET h == handleChunk(r, frame, st)
            IN IF Threw(h) THEN Called(h, "console.error") ELSE h

\* ws.onmessage: JSON.parse and the call of onChunk run inside one try block,
\* whose catch logs
onmessage(s, frame, st) ==
    LET r == [s EXCEPT !.inbox = Append(@, frame)]
    IN IF ~frame.parses
       THEN Called(r, "console.error")
       ELSE LET h == handleChunk(r, frame, st)
            IN IF Threw(h) THEN Called(h, "console.error") ELSE h

\* ------------------------------------------------------------ actions

CtxStates == {"suspended", "running"}

SeqsInUse == {timeline[i].sequence : i \in 1..Len(timeline)}

Unlock ==
    \E st \in CtxStates : Step("unlock", unlock(St, st))

Enqueue ==
    /\ Len(timeline) < MaxChunks
    /\ \E sequence \in (0..MaxSeq) \ SeqsInUse, duration \in Durations, st \in CtxStates :
          Step("enqueue", enqueue(St, sequence, duration, st))

Clear == \E keep \in BOOLEAN : Step("clear", clear(St, keep))

\* payloads handed to enqueue(): 50 ms and 100 ms of PCM, PCM cut off in the
\* middle of a sample, a string that is not base64, and the empty string
Payloads == {"PCM50", "PCM100", "PCMODD", "!!!!", ""}

\* enqueue(base64, sequence) with the payload as it came off the wire; the chunks
\* arrive in the order of their sequence numbers
EnqueueBase64 ==
    /\ Len(timeline) < MaxChunks
    /\ \E base64 \in Payloads, st \in CtxStates :
          Step(IF Decodes(base64) THEN "enqueue" ELSE "enqueueFailed",
               enqueueBase64(St, base64, Len(timeline), st))

\* the platform grants a requested resume()
CtxResumed ==
    /\ ctx.state = "suspended"
    /\ Event([St EXCEPT !.ctx.state = "running"])

\* the rendering clock advances
Advance ==
    /\ ctx.state = "running"
    /\ ctx.currentTime < MaxTime
    /\ Event([St EXCEPT !.ctx.currentTime = @ + 1])

\* "ended" is delivered for a source of the current context; the events of one
\* context are delivered in the order in which its sources end
Ended ==
    \E i \in Owed(St) :
        /\ \A j \in 1..(i - 1) : timeline[j].ended
        /\ Event(onended([St EXCEPT !.timeline[i].ended = TRUE], ctx.currentTime))

\* "ended" is delivered for a source of a context that clear() has closed
LateEnded ==
    \E t \in late :
        Event(onended([St EXCEPT !.late = @ \ {t}], t))

\* ---- capture

StartRecording ==
    /\ Len(sessions) < MaxStarts
    /\ Step("startRecording", startRecording(St))

StopRecording == Step("stopRecording", stopRecording(St))

DeviceGranted ==
    \E k \in 1..Len(sessions), st \in CtxStates :
        /\ sessions[k].pc = "getUserMedia"
        /\ Event(granted(St, k, st))

DeviceDenied ==
    \E k \in 1..Len(sessions) :
        /\ sessions[k].pc = "getUserMedia"
        /\ Event(denied(St, k))

CaptureResumed ==
    \E k \in 1..Len(sessions) :
        /\ sessions[k].pc = "resume"
        /\ Event(resumed(St, k))

CaptureTick ==
    \E k \in 1..Len(sessions) :
        /\ sessions[k].raf
        /\ Event(captureTick(St, k))

AudioProcess ==
    \E k \in 1..Len(sessions) :
        /\ sessions[k].proc = "connected"
        /\ sessions[k].actx = "running"
        /\ Event(onaudioprocess(St, k))

\* ---- socket events

SocketOpened ==
    \E k \in 1..Len(sockets) :
        /\ sockets[k] = "connecting"
        /\ Event([St EXCEPT !.sockets[k] = "open", !.status = "connected",
                            !.openedBy = k])

\* the connection fails or is lost: the socket leaves OPEN at once, the error
\* event (if any) and the close event follow
SocketLost ==
    \E k \in 1..Len(sockets), err \in BOOLEAN :
        /\ sockets[k] \in {"connecting", "open"}
        /\ Event([St EXCEPT !.sockets[k] = "closing",
                            !.status = IF err THEN "error" ELSE @,
                            !.failed = IF err THEN Max(@, k) ELSE @])

SocketClosed ==
    \E k \in 1..Len(sockets) :
        /\ sockets[k] = "closing"
        /\ Event([St EXCEPT !.sockets[k] = "closed", !.status = "disconnected",
                            !.failed = Max(@, k)])

\* ---- the hook as its caller may use it

Connect ==
    /\ Len(sockets) < MaxSockets
    /\ Step("connect", connect(St))

Disconnect == Step("disconnect", disconnect(St))

SendText == Step("sendText", sendText(St))

SendAudio == Step("sendAudio", sendAudio(St))

SendInterrupt == Step("sendInterrupt", sendInterrupt(St))

\* ---- the application: mount effect, the three handlers, incoming audio

Mount ==
    /\ sockets = <<>>
    /\ Step("connect", connect(St))

HandlePressStart ==
    /\ Len(sessions) < MaxPresses
    /\ \E st \in CtxStates, keep \in BOOLEAN :
          Step("handlePressStart", handlePressStart(St, st, keep))

HandlePressEnd == Step("handlePressEnd", handlePressEnd(St))

HandleInterrupt ==
    \E keep \in BOOLEAN : Step("handleInterrupt", handleInterrupt(St, keep))

\* an audio message arrives on the open socket; the transport keeps the order
\* of the sender
AudioMessage ==
    /\ IsOpen(St)
    /\ Len(timeline) < AppChunks
    /\ \E duration \in Durations, st \in CtxStates :
          Step("handleChunk", handleAudioChunk(St, Len(timeline), duration, st))

\* the peer puts an audio message on the open socket; it is in flight until
\* ws.onmessage gets it
PeerEmits ==
    /\ IsOpen(St)
    /\ Len(inflight) < MaxInflight
    /\ Event([St EXCEPT !.inflight = Append(@, FALSE)])

\* ws.onmessage gets the oldest audio message in flight and handleChunk hands
\* it to enqueue
AudioArrives ==
    /\ IsOpen(St)
    /\ inflight # <<>>
    /\ Len(timeline) < AppChunks
    /\ \E duration \in Durations, st \in CtxStates :
          Step("handleChunk",
               [handleAudioChunk(St, Len(timeline), duration, st)
                   EXCEPT !.inflight = Tail(@)])

\* the stop-story button: handleInterrupt runs while messages of the utterance
\* it stops are still in flight
InterruptInFlight ==
    \E keep \in BOOLEAN :
        Step("handleInterrupt",
             [handleInterrupt(St, keep)
                 EXCEPT !.inflight = [i \in DOMAIN @ |-> TRUE]])

\* AudioControl, handlePointerDown: ignored while not connected
PointerDown ==
    /\ status = "connected"
    /\ Len(sessions) < MaxStarts
    /\ \E st \in CtxStates, keep \in BOOLEAN :
          Step("handlePressStart",
               [handlePressStart(St, st, keep) EXCEPT !.pressed = TRUE])

\* a release handler that calls onPressEnd on every release event
PointerUpAlways ==
    Step("handlePressEnd", [handlePressEnd(St) EXCEPT !.pressed = FALSE])

\* AudioControl, handlePointerUp (pointer up, leave or cancel): ignored unless
\* the button is pressed
PointerUp ==
    /\ pressed
    /\ Step("handlePressEnd", [handlePressEnd(St) EXCEPT !.pressed = FALSE])

\* the processor node hands a chunk to sendAudio
AudioProcessSend ==
    \E k \in 1..Len(sessions) :
        /\ sessions[k].proc = "connected"
        /\ sessions[k].actx = "running"
        /\ Event(sendAudio(onaudioprocess(St, k)))

\* ---- frames delivered to ws.onmessage

Frames ==
    {Unparseable,
     Chunk("text", {"data"}, "Once", 0),
     Chunk("text", {"data"}, " upon a time", 0),
     Chunk("text", {"data"}, "", 0),
     Chunk("image", {"data"}, "img", 0),
     Chunk("image", {"data"}, "", 0),
     Chunk("audio", {"data", "sequence"}, "PCM50", 0),
     Chunk("audio", {"data"}, "PCM50", 0),
     Chunk("audio", {"sequence"}, "", 0),
     Chunk("audio", {"data", "sequence"}, "!!!!", 0),
     Chunk("status", {"data"}, "turn_complete", 0),
     Chunk("error", {"data"}, "oops", 0),
     Chunk("ping", {}, "", 0)}

\* a frame arrives on an open socket
Message ==
    /\ Len(inbox) < MaxMessages
    /\ \E k \in 1..Len(sockets), frame \in Frames, st \in CtxStates :
          /\ sockets[k] = "open"
          /\ Step("onmessage", onmessage(St, frame, st))

\* ---- the conversion loop of processor.onaudioprocess on one input buffer

Buffers == UNION {[1..n -> Samples] : n \in 1..MaxFrame}

Convert ==
    /\ Len(pcm16) # Len(inputData)
    /\ pcm16' = [i \in 1..Len(inputData) |-> ToPcm16(inputData[i])]
    /\ UNCHANGED <<pq, ctx, timeline, late, volume, dropped, rec, sessions, capVolume,
                   quiet, cbSinceStop, wsRef, sockets, status, storyItems, itemCounter,
                   inbox, failed, openedBy, inflight, pressed, inputData, log, lastOp,
                   prevOp>>

InitObjects ==
    /\ pq = [audioCtx |-> 0, nextStartTime |-> 0, isActive |-> FALSE,
             analyser |-> 0, animFrame |-> FALSE]
    /\ ctx = NoCtx
    /\ timeline = <<>>
    /\ late = {}
    /\ volume = "none"
    /\ dropped = FALSE
    /\ rec = [streamRef |-> 0, audioCtxRef |-> 0, processorRef |-> 0, animFrameRef |-> 0,
              isRecording |-> FALSE]
    /\ sessions = <<>>
    /\ capVolume = "none"
    /\ quiet = FALSE
    /\ cbSinceStop = "none"
    /\ wsRef = 0
    /\ sockets = <<>>
    /\ status = "disconnected"
    /\ storyItems = <<>>
    /\ itemCounter = 0
    /\ inbox = <<>>
    /\ failed = 0
    /\ openedBy = 0
    /\ inflight = <<>>
    /\ pressed = FALSE
    /\ pcm16 = <<>>
    /\ log = <<>>
    /\ lastOp = "init"
    /\ prevOp = "other"

Init == InitObjects /\ inputData = <<>>

\* the processor node is handed an input buffer
InitPcm == InitObjects /\ inputData \in Buffers

NextPcm == Convert

SpecPcm == InitPcm /\ [][NextPcm]_vars

NextPlayback ==
    \/ Unlock
    \/ Enqueue
    \/ Clear
    \/ CtxResumed
    \/ Advance
    \/ Ended
    \/ LateEnded

SpecPlayback == Init /\ [][NextPlayback]_vars

NextDecode ==
    \/ EnqueueBase64
    \/ Clear
    \/ CtxResumed
    \/ Advance
    \/ Ended
    \/ LateEnded

SpecDecode == Init /\ [][NextDecode]_vars

\* the platform delivers the "ended" event of every source that has played to
\* its end
SpecDecodeLive == Init /\ [][NextDecode]_vars /\ WF_vars(Ended)

NextCapture ==
    \/ StartRecording
    \/ StopRecording
    \/ DeviceGranted
    \/ DeviceDenied
    \/ CaptureResumed
    \/ CaptureTick
    \/ AudioProcess

SpecCapture == Init /\ [][NextCapture]_vars

\* the two objects share no state: each is exercised from the state in which the
\* other one has not been used
PlaybackUnused == pq.audioCtx = 0 /\ volume = "none"
CaptureUnused == sessions = <<>> /\ capVolume = "none"

NextHooks ==
    \/ (CaptureUnused /\ NextPlayback)
    \/ (PlaybackUnused /\ NextCapture)

SpecHooks == Init /\ [][NextHooks]_vars

NextSocket ==
    \/ Connect
    \/ Disconnect
    \/ SendText
    \/ SendAudio
    \/ SendInterrupt
    \/ SocketOpened
    \/ SocketLost
    \/ SocketClosed

SpecSocket == Init /\ [][NextSocket]_vars

NextReceive ==
    \/ Mount
    \/ SocketOpened
    \/ SocketLost
    \/ SocketClosed
    \/ Message

SpecReceive == Init /\ [][NextReceive]_vars

Next ==
    \/ Mount
    \/ SocketOpened
    \/ SocketLost
    \/ SocketClosed
    \/ HandlePressStart
    \/ HandlePressEnd
    \/ HandleInterrupt
    \/ AudioMessage
    \/ CtxResumed
    \/ Advance
    \/ Ended
    \/ LateEnded
    \/ DeviceGranted
    \/ DeviceDenied
    \/ CaptureResumed
    \/ CaptureTick
    \/ AudioProcessSend

Spec == Init /\ [][Next]_vars

\* interrupting the story while the peer is still streaming it
NextInterrupt ==
    \/ Mount
    \/ SocketOpened
    \/ PeerEmits
    \/ AudioArrives
    \/ InterruptInFlight
    \/ CtxResumed
    \/ Advance
    \/ Ended
    \/ LateEnded

SpecInterrupt == Init /\ [][NextInterrupt]_vars

\* the push-to-talk button, the device and the socket
NextPress ==
    \/ Mount
    \/ SocketOpened
    \/ SocketLost
    \/ SocketClosed
    \/ PointerDown
    \/ PointerUp
    \/ DeviceGranted
    \/ DeviceDenied
    \/ CaptureResumed
    \/ CaptureTick
    \/ AudioProcessSend

SpecPress == Init /\ [][NextPress]_vars

\* ------------------------------------------------------------- claims

InLog(op) == \E i \in 1..Len(log) : log[i] = op

\* C1: the chunks of one timeline are scheduled for playback in ascending order
\* of their sequence numbers, whatever the order of the enqueue calls.
C1_PlaybackFollowsSequence ==
    \A i, j \in 1..Len(timeline) :
        timeline[i].startAt < timeline[j].startAt
            => timeline[i].sequence < timeline[j].sequence

\* C2: a chunk B enqueued on the timeline right after a chunk A, while the clock
\* has not passed the scheduled end of A, starts exactly at A's start plus A's
\* duration.
C2_Gapless ==
    [][(/\ Len(timeline) >= 1
        /\ Len(timeline') = Len(timeline) + 1
        /\ ctx.currentTime <= timeline[Len(timeline)].startAt
                                + timeline[Len(timeline)].duration)
       => timeline'[Len(timeline')].startAt
              = timeline[Len(timeline)].startAt + timeline[Len(timeline)].duration]_vars

\* two chunks enqueued in a burst, at the same clock reading, play back to back
C2_Witness ==
    /\ lastOp = "enqueue"
    /\ Len(timeline) >= 2
    /\ ctx.currentTime = timeline[1].startAt
    /\ timeline[2].startAt = timeline[1].startAt + timeline[1].duration

\* C3: in every handler, clear() has run before sendInterrupt() is called and
\* before an interrupt frame is handed to the socket, and startRecording() is
\* called only after both.
C3_ClearBeforeInterrupt ==
    \A i \in 1..Len(log) :
        /\ log[i] \in {"sendInterrupt", "frame:interrupt"}
              => \E j \in 1..(i - 1) : log[j] = "clear"
        /\ log[i] = "startRecording"
              => \E j \in 1..(i - 1) :
                    /\ log[j] = "sendInterrupt"
                    /\ \E h \in 1..(j - 1) : log[h] = "clear"

\* a press that interrupted active playback and whose interrupt frame was sent
C3_Witness ==
    /\ lastOp = "handlePressStart"
    /\ dropped
    /\ InLog("frame:interrupt")
    /\ InLog("startRecording")

\* C4: right after clear() no source is pending, the scheduler is idle, the
\* last reported volume is zero, and nothing of the discarded timeline is left
\* for a later enqueue to build on: no context, nextStartTime back at zero.
C4_ClearDiscards ==
    lastOp = "clear" =>
        /\ timeline = <<>>
        /\ ~pq.isActive
        /\ volume = "zero"
        /\ pq.audioCtx = 0
        /\ ctx = NoCtx
        /\ pq.nextStartTime = 0

\* clear() was called during active playback, before a scheduled source ended
C4_Witness == lastOp = "clear" /\ dropped

\* C5: a chunk enqueued right after clear() starts at the current reading of
\* the clock it is scheduled on (so never before it), and nextStartTime
\* restarts from there.
C5_EnqueueAfterClear ==
    (prevOp = "clear" /\ lastOp = "enqueue") =>
        /\ Len(timeline) = 1
        /\ timeline[1].startAt >= ctx.currentTime
        /\ timeline[1].startAt = ctx.currentTime
        /\ pq.nextStartTime = ctx.currentTime + timeline[1].duration

\* the clear() before the enqueue had cut off scheduled audio
C5_Witness == prevOp = "clear" /\ lastOp = "enqueue" /\ dropped

\* C6: once stopRecording() has returned, the platform fires no capture
\* callback (volume or audio chunk) until startRecording() is called again.
C6_QuietAfterStop == quiet => cbSinceStop = "none"

\* a session holds something of the platform: a live stream, an open capture
\* context, a connected processor node or a pending animation frame
SessionOpen(k) ==
    \/ sessions[k].stream = "live"
    \/ sessions[k].actx \in {"suspended", "running"}
    \/ sessions[k].proc = "connected"
    \/ sessions[k].raf

\* C7: at most one capture session is open at any time.
C7_OneSession == Cardinality({k \in 1..Len(sessions) : SessionOpen(k)}) <= 1

\* C8: a second stopRecording() right after a first one changes nothing of the
\* capture state, and a second clear() right after a first one changes nothing
\* of the scheduler state.
C8_CancelIdempotent ==
    [][/\ (lastOp = "stopRecording" /\ lastOp' = "stopRecording")
            => UNCHANGED <<rec, sessions, capVolume>>
       /\ (lastOp = "clear" /\ lastOp' = "clear")
            => UNCHANGED <<pq, ctx, timeline, late, volume>>]_vars

\* stopRecording() twice in a row, the first of which tore a session down
C8_Witness ==
    /\ prevOp = "stopRecording"
    /\ lastOp = "stopRecording"
    /\ \E k \in 1..Len(sessions) : sessions[k].stream = "stopped"

\* C9: a completion callback of a source that clear() discarded neither
\* reports a volume nor changes the scheduler.
C9_NoDanglingCallback == [][LateEnded => UNCHANGED <<pq, volume>>]_vars

\* C10: nextStartTime goes down only in a step that runs clear() or that
\* constructs a fresh context.
C10_NextStartMonotonic ==
    [][pq'.nextStartTime < pq.nextStartTime
         => (InLog("clear")' \/ (pq.audioCtx = 0 /\ pq'.audioCtx # 0))]_vars

\* nextStartTime has been advanced by two chunks and kept across a completion
C10_Witness ==
    /\ Len(timeline) >= 2
    /\ timeline[1].ended
    /\ pq.nextStartTime = timeline[2].startAt + timeline[2].duration

\* the frame the most recent step delivered, in the state after the step
Received == inbox[Len(inbox)]
Delivered == Len(inbox') = Len(inbox) + 1
LastUnit == storyItems[Len(storyItems)]
TextWithData(f) == f.parses /\ f.type = "text" /\ "data" \in f.has /\ f.data # ""
ImageWithData(f) == f.parses /\ f.type = "image" /\ "data" \in f.has /\ f.data # ""

\* C11: a text message that follows a text unit is appended to that unit and
\* leaves the number of units as it was ("Once" then " upon a time" is the one
\* unit "Once upon a time"); an image message opens a new image unit; a text
\* message that follows an image unit, or no unit, opens a new text unit.
C11_TextAndImageDispatch ==
    [][Delivered =>
        /\ (TextWithData(Received') /\ storyItems # <<>> /\ LastUnit.type = "text")
              => /\ Len(storyItems') = Len(storyItems)
                 /\ LastUnit'.type = "text"
                 /\ LastUnit'.content = LastUnit.content \o Received'.data
                 /\ SubSeq(storyItems', 1, Len(storyItems) - 1)
                       = SubSeq(storyItems, 1, Len(storyItems) - 1)
        /\ ImageWithData(Received')
              => /\ Len(storyItems') = Len(storyItems) + 1
                 /\ LastUnit'.type = "image"
                 /\ LastUnit'.content = Received'.data
                 /\ SubSeq(storyItems', 1, Len(storyItems)) = storyItems
        /\ (TextWithData(Received') /\ (storyItems = <<>> \/ LastUnit.type = "image"))
              => /\ Len(storyItems') = Len(storyItems) + 1
                 /\ LastUnit'.type = "text"
                 /\ LastUnit'.content = Received'.data
                 /\ SubSeq(storyItems', 1, Len(storyItems)) = storyItems
        /\ (/\ Len(inbox') = 2
            /\ inbox'[1].type = "text" /\ inbox'[1].data = "Once"
            /\ inbox'[2].type = "text" /\ inbox'[2].data = " upon a time")
              => /\ Len(storyItems') = 1
                 /\ storyItems'[1].content = "Once upon a time"]_vars

\* text, image, text: the second text opened a unit of its own after the image
C11_Witness ==
    /\ lastOp = "onmessage"
    /\ Len(storyItems) = 3
    /\ storyItems[1].type = "text"
    /\ storyItems[2].type = "image"
    /\ storyItems[3].type = "text"
    /\ storyItems[3].content = " upon a time"

\* the text fragments that reached a unit, by their position in the inbox
Fragments == {i \in 1..Len(inbox) : \E u \in 1..Len(storyItems) :
                  storyItems[u].type = "text" /\ i \in storyItems[u].from}
SameUnit(i, j) == \E u \in 1..Len(storyItems) : {i, j} \subseteq storyItems[u].from
OtherTypes == {"image", "audio", "status", "error"}

\* C12 as stated: two text fragments are in the same unit exactly when no
\* image, audio, status or error message was received between them.
C12_SplitByAnyOtherType ==
    \A i, j \in Fragments :
        i < j => (SameUnit(i, j) <=>
                    ~\E m \in (i + 1)..(j - 1) :
                        inbox[m].parses /\ inbox[m].type \in OtherTypes)

\* C12, amended: two text fragments are in the same unit exactly when no image
\* message with a payload was received between them; audio, status and error
\* messages between them do not split the unit.
C12_SplitByImageOnly ==
    \A i, j \in Fragments :
        i < j => (SameUnit(i, j) <=>
                    ~\E m \in (i + 1)..(j - 1) : ImageWithData(inbox[m]))

\* two fragments of one unit with an audio message scheduled between them
C12_Witness ==
    /\ Len(inbox) = 3
    /\ inbox[2].type = "audio"
    /\ Len(timeline) = 1
    /\ Len(storyItems) = 1
    /\ storyItems[1].from = {1, 3}

\* C13: every converted sample lies in [-32768, 32767] and is the clamped input
\* scaled by 32768 below zero and by 32767 from zero up, truncated, not wrapped:
\* 0.0 gives 0, 1.0 and everything above give 32767, -1.0 and everything below
\* give -32768.
C13_Pcm16Conversion ==
    \A i \in 1..Len(pcm16) :
        LET x == inputData[i]
            y == pcm16[i]
        IN /\ y \in -32768..32767
           /\ x = 0 => y = 0
           /\ x >= SampleDen => y = 32767
           /\ x <= -SampleDen => y = -32768
           /\ (0 <= x /\ x <= SampleDen) => y = (x * 32767) \div SampleDen
           /\ (-SampleDen <= x /\ x < 0) => y = -((-x * 32768) \div SampleDen)

\* a buffer with a sample above 1.0 and a sample below -1.0 has been converted
C13_Witness ==
    /\ Len(pcm16) = Len(inputData)
    /\ \E i, j \in 1..Len(pcm16) :
          /\ inputData[i] > SampleDen /\ pcm16[i] = 32767
          /\ inputData[j] < -SampleDen /\ pcm16[j] = -32768

\* C14: the step in which getUserMedia rejects ends the call as failed and
\* changes nothing else of the capture state: the refs, isRecording, the last
\* reported volume and every other session are as before, the failed call holds
\* no stream, context, processor node or animation frame, and it never acquires
\* one or fires a callback afterwards.
C14_DeniedLeavesCapture ==
    [][\A k \in 1..Len(sessions) :
          /\ (sessions[k].pc = "getUserMedia" /\ sessions'[k].pc = "failed")
                => /\ UNCHANGED <<rec, capVolume, cbSinceStop>>
                   /\ sessions'[k].stream = "none"
                   /\ sessions'[k].actx = "none"
                   /\ sessions'[k].proc = "none"
                   /\ ~sessions'[k].raf
                   /\ \A j \in 1..Len(sessions) : j # k => sessions'[j] = sessions[j]
          /\ (sessions[k].pc = "failed" /\ sessions[k].stream = "none")
                => sessions'[k] = sessions[k]]_vars

\* the device was denied to the only call made so far
C14_Witness ==
    /\ Len(sessions) = 1
    /\ sessions[1].pc = "failed"
    /\ sessions[1].stream = "none"
    /\ ~rec.isRecording
    /\ rec.streamRef = 0 /\ rec.audioCtxRef = 0 /\ rec.processorRef = 0
    /\ capVolume = "none"

\* C15: a frame that does not parse never reaches handleChunk and changes
\* neither the status, the sockets, the story units nor the playback scheduler;
\* every frame that parses is handed to handleChunk, whatever was received
\* before it.
C15_UnparseableDropped ==
    [][Delivered =>
        /\ ~Received'.parses
              => /\ ~InLog("handleChunk")'
                 /\ UNCHANGED <<status, sockets, wsRef, storyItems, itemCounter,
                                pq, ctx, timeline, volume>>
        /\ Received'.parses => InLog("handleChunk")']_vars

\* a text frame was dispatched on the connection after an unparseable one
C15_Witness ==
    /\ Len(inbox) = 2
    /\ ~inbox[1].parses
    /\ TextWithData(inbox[2])
    /\ Len(storyItems) = 1
    /\ storyItems[1].from = {2}
    /\ status = "connected"

KnownTypes == {"text", "image", "audio", "status", "error"}

\* C16: a frame that parses but carries a type outside text, image, audio,
\* status and error is reported on the error path, and changes neither the
\* story units nor the playback scheduler.
C16_UnknownKindReported ==
    [][(Delivered /\ Received'.parses /\ Received'.type \notin KnownTypes)
          => /\ InLog("console.error")'
             /\ UNCHANGED <<storyItems, itemCounter, pq, ctx, timeline, volume>>]_vars

\* C17: an enqueue() whose payload does not decode leaves nextStartTime, the
\* active flag and the scheduled sources as they were, and the enqueue() right
\* after it schedules its chunk as if the failed call had not been made: at
\* max(now, nextStartTime), with the scheduler active.
C17_UndecodableSkipped ==
    [][/\ lastOp' = "enqueueFailed"
            => /\ pq'.nextStartTime = pq.nextStartTime
               /\ pq'.isActive = pq.isActive
               /\ timeline' = timeline
       /\ (lastOp = "enqueueFailed" /\ lastOp' = "enqueue")
            => /\ Len(timeline') = Len(timeline) + 1
               /\ pq'.isActive
               /\ timeline'[Len(timeline')].startAt
                     = Max(ctx'.currentTime, pq.nextStartTime)
               /\ pq'.nextStartTime = timeline'[Len(timeline')].startAt
                                        + timeline'[Len(timeline')].duration]_vars

\* an undecodable payload arrived while an earlier chunk was still to finish
C17_Witness ==
    /\ lastOp = "enqueueFailed"
    /\ InLog("throw")
    /\ pq.isActive
    /\ Len(timeline) >= 1
    /\ pq.nextStartTime > ctx.currentTime

\* C18: after handlePressStart or handleInterrupt, whether or not an interrupt
\* frame went out, the scheduler is cleared and idle: no source is scheduled, no
\* context is held, nextStartTime is zero and the reported volume is zero.
C18_InterruptClearsLocally ==
    lastOp \in {"handlePressStart", "handleInterrupt"} =>
        /\ InLog("clear")
        /\ timeline = <<>>
        /\ ~pq.isActive
        /\ pq.audioCtx = 0
        /\ pq.nextStartTime = 0
        /\ volume = "zero"

\* a press cut off scheduled audio after the connection was lost and before its
\* close event arrived: the button was still enabled, no interrupt frame was sent
C18_Witness ==
    /\ lastOp = "handlePressStart"
    /\ status = "connected"
    /\ dropped
    /\ ~IsOpen(St)
    /\ InLog("sendInterrupt")
    /\ ~InLog("frame:interrupt")

StatusValues == {"disconnected", "connecting", "connected", "error"}

\* C19 as stated: the status is one of the four values and changes only in a
\* step that delivers an event of a socket, never in a call of the hook.
C19_StatusOnlyByEvents ==
    [][/\ status' \in StatusValues
       /\ status' # status => (lastOp' = "event" /\ sockets' # sockets)]_vars

\* C19, amended: the status is one of the four values and changes only in a
\* step that delivers an event of a socket, or to connecting in a connect()
\* that constructs a socket; sendText, sendAudio, sendInterrupt, disconnect()
\* and a connect() on an open socket leave it as it is.
C19_StatusByEventsOrConnect ==
    [][/\ status' \in StatusValues
       /\ status' # status =>
             \/ lastOp' = "event" /\ sockets' # sockets
             \/ /\ lastOp' = "connect"
                /\ status' = "connecting"
                /\ Len(sockets') = Len(sockets) + 1]_vars

\* disconnect() was called on the open socket: the status still reads connected
\* until the close event arrives
C19_Witness ==
    /\ lastOp = "disconnect"
    /\ wsRef = 0
    /\ status = "connected"
    /\ \E k \in 1..Len(sockets) : sockets[k] = "closing"

\* C20: once a socket has reported an error or a close, the status reads
\* connected again only through the open event of a socket that a later
\* connect() constructed.
C20_FailureStaysVisible == status = "connected" => openedBy > failed

AudioFrame(f) == f.parses /\ f.type = "audio"

\* C21: an audio message reaches enqueue() exactly when it carries a payload
\* and a sequence number, sequence 0 included; an audio message without a
\* sequence number changes nothing of the playback scheduler.
C21_AudioNeedsSequence ==
    [][(Delivered /\ AudioFrame(Received'))
          => /\ InLog("enqueue")' <=> (/\ "data" \in Received'.has
                                       /\ Received'.data # ""
                                       /\ "sequence" \in Received'.has)
             /\ "sequence" \notin Received'.has
                   => UNCHANGED <<pq, ctx, timeline, late, volume>>]_vars

\* an audio message with sequence 0 was scheduled, and one without a sequence
\* that followed it was not
C21_Witness ==
    /\ lastOp = "onmessage"
    /\ Len(inbox) = 2
    /\ AudioFrame(inbox[1]) /\ "sequence" \in inbox[1].has /\ inbox[1].sequence = 0
    /\ AudioFrame(inbox[2]) /\ "sequence" \notin inbox[2].has
    /\ Len(timeline) = 1
    /\ timeline[1].sequence = 0

\* every scheduled source has played to its end on the current clock reading
AllPlayed ==
    /\ timeline # <<>>
    /\ \A i \in 1..Len(timeline) : Finished(timeline[i], ctx.currentTime)

\* C22: a chunk that enqueue() has scheduled leaves the scheduler active, and
\* once every scheduled source has played to its end the scheduler becomes idle
\* with volume 0 reported, unless a further chunk is scheduled first.
C22_IdleAfterLast ==
    /\ [](lastOp = "enqueue" => pq.isActive)
    /\ AllPlayed ~> ((~pq.isActive /\ volume = "zero") \/ ~AllPlayed)

\* two chunks have played out, both completions were delivered, and the
\* scheduler is idle
C22_Witness ==
    /\ Len(timeline) = 2
    /\ \A i \in 1..Len(timeline) : timeline[i].ended
    /\ AllPlayed
    /\ ~pq.isActive
    /\ volume = "zero"
    /\ lastOp = "event"

\* C23: a completion event of a scheduled source makes the scheduler idle only
\* when every scheduled source has played to its end.
C23_IdleOnlyAfterLast ==
    [][(/\ pq.isActive /\ ~pq'.isActive
        /\ Len(timeline') = Len(timeline)
        /\ \E i \in 1..Len(timeline) : timeline'[i].ended /\ ~timeline[i].ended)
          => \A i \in 1..Len(timeline') : Finished(timeline'[i], ctx'.currentTime)]_vars

\* C24: whenever the scheduler is active, a tick of the volume tap is pending.
C24_TapRunsWhileActive == pq.isActive => pq.animFrame

\* the source of a chunk, without its completion flag
Scheduled(src) == [sequence |-> src.sequence, startAt |-> src.startAt,
                   duration |-> src.duration]

\* C25: an enqueue() adds exactly one source for its chunk to the timeline and
\* no chunk has two; in a step that does not run clear() every scheduled source
\* stays where it is with its start time and duration, and a source is marked
\* completed only after it has played to its end.
C25_ConsumedOnce ==
    [][/\ InLog("enqueue")' /\ ~InLog("throw")'
            => /\ Len(timeline') = Len(timeline) + 1
               /\ ~timeline'[Len(timeline')].ended
       /\ \A i, j \in 1..Len(timeline') :
               timeline'[i].sequence = timeline'[j].sequence => i = j
       /\ ~InLog("clear")'
            => /\ Len(timeline') >= Len(timeline)
               /\ \A i \in 1..Len(timeline) :
                     /\ Scheduled(timeline'[i]) = Scheduled(timeline[i])
                     /\ timeline[i].ended => timeline'[i].ended
                     /\ (timeline'[i].ended /\ ~timeline[i].ended)
                           => Finished(timeline[i], ctx.currentTime)]_vars

\* of three chunks the first has completed, the others are still scheduled
C25_Witness ==
    /\ Len(timeline) = 3
    /\ timeline[1].ended
    /\ ~timeline[2].ended
    /\ ~timeline[3].ended

\* C26: an unlock() right after an unlock() changes nothing of the scheduler,
\* and an unlock() on a scheduler that holds a context keeps that context, its
\* clock, its sources, nextStartTime and the active flag.
C26_UnlockIdempotent ==
    [][/\ (lastOp = "unlock" /\ lastOp' = "unlock")
            => UNCHANGED <<pq, ctx, timeline, late, volume>>
       /\ (pq.audioCtx # 0 /\ lastOp' = "unlock")
            => UNCHANGED <<pq, ctx, timeline, late, volume>>]_vars

\* unlock() was called while the context was running and audio was scheduled
C26_Witness ==
    /\ lastOp = "unlock"
    /\ ctx.state = "running"
    /\ ctx.currentTime > 0
    /\ pq.isActive
    /\ Len(timeline) >= 1

\* C27: the scheduler holds a context exactly when one exists, and none at the
\* start; a context comes into being only in a step that runs unlock() or
\* enqueue(), with its clock at zero; it is let go only in a step that runs
\* clear(); and in every other step the context held stays the one it was (its
\* clock does not go back and its sources stay scheduled).
C27_OneLazyContext ==
    [][/\ (pq'.audioCtx = 0) <=> (ctx' = NoCtx)
       /\ (ctx = NoCtx /\ ctx' # NoCtx)
            => /\ InLog("unlock")' \/ InLog("enqueue")'
               /\ ctx'.currentTime = 0
       /\ (ctx # NoCtx /\ ~InLog("clear")')
            => /\ ctx' # NoCtx
               /\ pq'.audioCtx = pq.audioCtx
               /\ ctx'.currentTime >= ctx.currentTime
               /\ Len(timeline') >= Len(timeline)]_vars

\* a second chunk was scheduled on the context the first one had created, after
\* the first completion was delivered
C27_Witness ==
    /\ lastOp = "enqueue"
    /\ Len(timeline) = 2
    /\ timeline[1].ended
    /\ ctx.currentTime > 0
    /\ pq.audioCtx # 0

\* C28: every enqueue() starts its chunk at max(now, nextStartTime) and moves
\* nextStartTime to that start plus the chunk's duration; when the clock has
\* passed nextStartTime the chunk starts exactly at the clock reading.
C28_Underrun ==
    [][(Len(timeline') = Len(timeline) + 1)
          => LET src == timeline'[Len(timeline')]
                 now == ctx'.currentTime
                 nxt == IF pq.audioCtx = 0 THEN 0 ELSE pq.nextStartTime
             IN /\ src.startAt = (IF now >= nxt THEN now ELSE nxt)
                /\ pq'.nextStartTime = src.startAt + src.duration
                /\ now > nxt => src.startAt = now]_vars

\* a chunk was enqueued after the audio before it had run out: it starts at the
\* clock reading, later than the end of its predecessor
C28_Witness ==
    /\ lastOp = "enqueue"
    /\ Len(timeline) = 2
    /\ timeline[2].startAt > timeline[1].startAt + timeline[1].duration
    /\ timeline[2].startAt = ctx.currentTime
    /\ pq.nextStartTime = ctx.currentTime + timeline[2].duration

\* C29: an audio message that was in flight when handleInterrupt ran is not
\* scheduled for playback when it arrives.
C29_NoStaleAudio ==
    [][(inflight # <<>> /\ Head(inflight) /\ inflight' = Tail(inflight))
          => (~InLog("enqueue")' /\ Len(timeline') = Len(timeline))]_vars

\* every startRecording() has run to its end or failed
Settled == \A k \in 1..Len(sessions) : sessions[k].pc \in {"done", "failed"}

\* C30: once the button is released (handlePressEnd has run and no press start
\* followed it) and every startRecording() has settled, the hook does not
\* record and holds no input stream, and no stream is live.
C30_ReleaseEndsCapture ==
    (~pressed /\ quiet /\ sessions # <<>> /\ Settled)
        => /\ ~rec.isRecording
           /\ rec.streamRef = 0
           /\ \A k \in 1..Len(sessions) : sessions[k].stream # "live"

\* C31: when handlePressStart has returned, the scheduler holds the context
\* that unlock() created or resumed during the gesture.
C31_UnlockedContextKept ==
    lastOp = "handlePressStart" => (pq.audioCtx # 0 /\ ctx # NoCtx)

\* no socket of the hook owes an event: none is connecting or closing
NoEventPending == \A k \in 1..Len(sockets) : sockets[k] \in {"open", "closed"}

\* C32: when no transport event is pending, the status is connected exactly
\* when the socket the hook holds is open.
C32_StatusOfCurrentSocket ==
    NoEventPending => ((status = "connected") <=> IsOpen(St))

\* the sockets of the hook that are connecting or open
LiveSockets == {k \in 1..Len(sockets) : sockets[k] \in {"connecting", "open"}}

\* C33: at most one socket of the hook is connecting or open at any time.
C33_OneLiveSocket == Cardinality(LiveSockets) <= 1

\* the frames handed to a socket in the operations of a step, in order
FramesSent(l) ==
    SelectSeq(l, LAMBDA x : x \in {"frame:text", "frame:audio", "frame:interrupt"})

\* the frame each sender of the hook transmits
FrameOf ==
    [sendText |-> "frame:text", sendAudio |-> "frame:audio",
     sendInterrupt |-> "frame:interrupt"]

\* C34: sendText, sendAudio and sendInterrupt hand exactly one frame of their
\* kind to the socket when the hook's socket is open and none otherwise; they
\* change neither the sockets nor the status, and no other step of the hook
\* transmits a frame (nothing is kept for later).
C34_SendOnlyWhenOpen ==
    [][/\ \A op \in DOMAIN FrameOf :
            lastOp' = op
               => /\ FramesSent(log') = (IF IsOpen(St) THEN <<FrameOf[op]>> ELSE <<>>)
                  /\ ~InLog("throw")'
                  /\ UNCHANGED <<sockets, wsRef, status, failed, openedBy>>
       /\ lastOp' \notin DOMAIN FrameOf => FramesSent(log') = <<>>]_vars

\* a message was issued while the hook still held a socket whose connection was
\* lost, and was dropped
C34_Witness ==
    /\ lastOp = "sendAudio"
    /\ FramesSent(log) = <<>>
    /\ wsRef # 0
    /\ sockets[wsRef] = "closing"
    /\ status = "connected"

\* C35: the playback intervals [startAt, startAt + duration) of the chunks of
\* one timeline are pairwise disjoint.
C35_DisjointIntervals ==
    \A i, j \in 1..Len(timeline) :
        i # j => \/ timeline[i].startAt + timeline[i].duration <= timeline[j].startAt
                 \/ timeline[j].startAt + timeline[j].duration <= timeline[i].startAt

\* three chunks of one timeline: the second follows the first without a gap,
\* the third arrived after the second had run out
C35_Witness ==
    /\ Len(timeline) = 3
    /\ timeline[2].startAt = timeline[1].startAt + timeline[1].duration
    /\ timeline[3].startAt > timeline[2].startAt + timeline[2].duration

\* the payloads a frame can carry
FrameData == {f.data : f \in Frames}

\* C36: in every step the list of story units keeps its units in place with
\* their identifier and kind and never gets shorter; only the unit at the end
\* of the list, when it is a text unit, may change its content, and only by
\* appending a payload; all identifiers are distinct.
C36_UnitsAppendOnly ==
    [][/\ Len(storyItems') >= Len(storyItems)
       /\ \A i \in 1..Len(storyItems) :
             /\ storyItems'[i].id = storyItems[i].id
             /\ storyItems'[i].type = storyItems[i].type
             /\ (i < Len(storyItems) \/ storyItems[i].type # "text")
                   => storyItems'[i].content = storyItems[i].content
             /\ \E d \in FrameData \cup {""} :
                   storyItems'[i].content = storyItems[i].content \o d
       /\ \A i, j \in 1..Len(storyItems') :
             storyItems'[i].id = storyItems'[j].id => i = j]_vars

\* a text unit grew by a second fragment and an image unit was appended after it
C36_Witness ==
    /\ Len(storyItems) = 2
    /\ storyItems[1].type = "text"
    /\ storyItems[1].from = {1, 2}
    /\ storyItems[2].type = "image"
    /\ storyItems[2].id # storyItems[1].id

\* a frame that carries nothing for the story: an error or status message, or
\* a text or image message whose payload is empty
NoContent(f) ==
    /\ f.parses
    /\ \/ f.type \in {"error", "status"}
       \/ (f.type \in {"text", "image"} /\ f.data = "")

\* C37: the delivery of an error or status message, or of a text or image
\* message with an empty payload, changes neither the story units nor the
\* playback scheduler; an error message is logged, and it neither closes or
\* replaces the socket nor changes the status nor runs clear().
C37_NoContentNoEffect ==
    [][(Delivered /\ NoContent(Received'))
          => /\ UNCHANGED <<storyItems, itemCounter, pq, ctx, timeline, late, volume>>
             /\ ~InLog("clear")'
             /\ ~InLog("enqueue")'
             /\ Received'.type = "error"
                   => /\ InLog("console.error")'
                      /\ UNCHANGED <<sockets, wsRef, status>>]_vars

\* an error message arrived while a story unit was shown and audio was playing
C37_Witness ==
    /\ Len(inbox) = 3
    /\ inbox[3].parses
    /\ inbox[3].type = "error"
    /\ Len(storyItems) = 1
    /\ Len(timeline) = 1
    /\ pq.isActive
    /\ status = "connected"
    /\ lastOp = "onmessage"

\* C38: the button calls onPressStart only while the status is connected, and
\* calls onPressEnd only when an onPressStart has run since the last onPressEnd
\* (so at most once per press); the release leaves the button not pressed.
C38_PressEndOncePerPress ==
    [][/\ lastOp' = "handlePressStart" => (status = "connected" /\ pressed')
       /\ lastOp' = "handlePressEnd"
            => /\ sessions # <<>>
               /\ ~quiet
               /\ pressed
               /\ ~pressed']_vars

\* the button was pressed and released twice
C38_Witness ==
    /\ lastOp = "handlePressEnd"
    /\ Len(sessions) = 2
    /\ quiet
    /\ ~pressed

====
